---------------------------- MODULE Spec2Model ----------------------------
(***************************************************************************)
(* Expense-Manager-BE: the expense state machine (ExpenseService), the     *)
(* team budget aggregate (TeamService) and the threshold alerts.           *)
(*                                                                         *)
(* Every request handler is an async function.  A handler runs without     *)
(* interruption between two awaits, so one action of the model is the code *)
(* from one await (a document-store call, an e-mail) to the next.  A slot  *)
(* is one running coroutine: a request handler, or one per-expense task of *)
(* bulkAction's Promise.all.                                               *)
(*                                                                         *)
(* Document.save() writes the modified paths only ($set of the fields that *)
(* differ from the loaded document) and throws if the document is gone.    *)
(***************************************************************************)
EXTENDS Integers, Sequences, FiniteSets, TLC

\* ------------------------------------------------------------------ bounds
\* Requests accepted in one behaviour (this caps currentSpending, which
\* repeated approvals can grow without limit): when requests overlap, and
\* when they run one at a time.
MaxOps == 2
MaxSeqOps == 3

\* ------------------------------------------------------------- collections
Slots == {1, 2}
TeamIds == {"t1", "t2"}
\* An id no team has (a create or a status request for a missing team).
GhostTeam == "t0"
ExpIds == {"e1", "e2", "e3"}
\* The order in which new expenses get their ids (ids are never reused).
IdOrder == <<"e1", "e2", "e3">>
Amounts == {1, 4}
Statuses == {"pending", "approved", "rejected"}
\* Team.find().sort({createdAt: -1}): newest first.
TeamOrder == <<"t2", "t1">>
\* budget of the teams of the initial state; t2 has no budget.
InitBudget == [t \in TeamIds |-> IF t = "t1" THEN 5 ELSE 0]
\* name of the teams of the initial state, and the names requests may carry.
InitName == [t \in TeamIds |-> IF t = "t1" THEN "A" ELSE "B"]
TeamNames == {"A", "B", "C"}

VARIABLES
    teams,      \* team collection: id -> [name, budget, currentSpending, eightyPercentSent, hundredPercentSent]
    exps,       \* expense collection: id -> [exists, team, amount, status, approvedBy]
    created,    \* number of expense ids handed out
    slots,      \* slot -> the coroutine running in it (its locals)
    left,       \* requests the clients may still send
    delivered,  \* team -> alert type -> budget alert e-mails handed to the provider
    hist,       \* expense -> what single updates did to it (observer, DriveSpec and AmendSpec)
    advisor     \* the advisory service (AiService): [configured, limited, queue]

vars == <<teams, exps, created, slots, left, delivered, hist, advisor>>

AlertTypes == {"eighty_percent", "hundred_percent"}

NoExpense == [exists |-> FALSE, team |-> GhostTeam, amount |-> 0,
              status |-> "pending", approvedBy |-> FALSE,
              aiSuggestedCategory |-> "none", isDuplicate |-> FALSE]
NoTeam == [exists |-> FALSE, name |-> "none", budget |-> 0, currentSpending |-> 0,
           eightyPercentSent |-> FALSE, hundredPercentSent |-> FALSE, loaded |-> FALSE]
NoDto == [status |-> "none", amount |-> {}]
NoTeamDto == [name |-> "none", budget |-> {}]

\* The alertStatus object of a budget status that was not built.
NoReply == [eightyPercentSent |-> FALSE, hundredPercentSent |-> FALSE]

Idle == [op |-> "idle", pc |-> "idle", e |-> "e1", t |-> GhostTeam, dto |-> NoDto,
         oldStatus |-> "pending", doc |-> NoExpense, orig |-> NoExpense,
         snap |-> [t \in TeamIds |-> NoTeam], total |-> 0, todo |-> <<>>,
         alert |-> "none", evT |-> GhostTeam, mailOk |-> TRUE, late |-> {},
         res |-> "none", at |-> "none", sug |-> "unset", det |-> "unset",
         tdto |-> NoTeamDto, note |-> "unset", reply |-> NoReply,
         ask |-> "none", attempt |-> 0, out |-> "none"]

Max(a, b) == IF a >= b THEN a ELSE b

\* ------------------------------------------------------------ pure helpers

\* (currentSpending / budget) * 100 >= th, in JavaScript numbers: x / 0 is
\* Infinity for x > 0 and 0 / 0 is NaN, which compares false with everything.
UtilGE(spending, budget, th) ==
    IF budget = 0 THEN spending > 0 ELSE spending * 100 >= th * budget

\* utilization < 100 (false for Infinity and for NaN).
UtilLT100(spending, budget) ==
    budget > 0 /\ spending * 100 < 100 * budget

\* Faulty variant of EvalAlertChain: the eighty-percent latch is not read.
EvalAlertIgnoringLatch(spending, budget, e80, e100) ==
    IF UtilGE(spending, budget, 100) /\ ~e100 THEN "hundred_percent"
    ELSE IF UtilGE(spending, budget, 80) THEN "eighty_percent"
    ELSE "none"

\* The if / else-if of ExpenseService.update and TeamService.getBudgetStatus.
EvalAlertChain(spending, budget, e80, e100) ==
    IF UtilGE(spending, budget, 100) /\ ~e100 THEN "hundred_percent"
    ELSE IF UtilGE(spending, budget, 80) /\ ~e80 THEN "eighty_percent"
    ELSE "none"

\* The two ifs of TeamService.checkAndSendBudgetAlerts.
EvalAlertFindAll(spending, budget, e80, e100) ==
    IF UtilGE(spending, budget, 100) /\ ~e100 THEN "hundred_percent"
    ELSE IF UtilGE(spending, budget, 80) /\ ~e80 /\ UtilLT100(spending, budget)
         THEN "eighty_percent"
    ELSE "none"

RECURSIVE SumAmounts(_, _)
SumAmounts(S, x) ==
    IF S = {} THEN 0
    ELSE LET e == CHOOSE y \in S : TRUE
         IN x[e].amount + SumAmounts(S \ {e}, x)

\* expenseModel.find({status: 'approved', team: teamId})
ApprovedOf(t, x) == {e \in ExpIds : x[e].exists /\ x[e].team = t /\ x[e].status = "approved"}

\* Faulty variant of CalculateCurrentSpending: no filter on the status.
CalculateAllSpending(t, x) ==
    SumAmounts({e \in ExpIds : x[e].exists /\ x[e].team = t}, x)

\* TeamService.calculateCurrentSpending
CalculateCurrentSpending(t, x) == SumAmounts(ApprovedOf(t, x), x)

\* ------------------------------------------------------------------- slots
IdleSlots == {s \in Slots : slots[s].op = "idle"}
AllIdle == IdleSlots = Slots
\* Slots are anonymous: a new coroutine takes the lowest free one.
FreeSlot == CHOOSE s \in IdleSlots : \A r \in IdleSlots : s <= r
CanStart == left > 0 /\ IdleSlots # {}

\* Teams whose eighty-percent latch is already stored when a request arrives.
Latched80 == {t \in TeamIds : teams[t].eightyPercentSent}

\* teamModel.findById(t) finds a document.
TeamExists(t) == t \in TeamIds /\ teams[t].exists

Load(t) == [teams[t] EXCEPT !.loaded = TRUE]

\* A store call of the coroutine rejected: nothing catches it.
Failed(sl) == [sl EXCEPT !.pc = "ret", !.res = "error", !.at = sl.pc]

Set(s, r) == slots' = [slots EXCEPT ![s] = r]

\* The expenses of the initial state: two pending expenses of team t1.
InitExpenses ==
    [e \in ExpIds |->
       IF e = "e1" THEN [NoExpense EXCEPT !.exists = TRUE, !.team = "t1", !.amount = 4]
       ELSE IF e = "e2" THEN [NoExpense EXCEPT !.exists = TRUE, !.team = "t1", !.amount = 1]
       ELSE NoExpense]

\* No OpenAI key in the configuration: the advisory service has no client.
Unconfigured == [configured |-> FALSE, limited |-> FALSE, queue |-> <<>>]

\* Two teams with nothing spent and no alert sent, the expenses x (c ids
\* handed out), nothing running, n requests to come, the advisory service adv.
InitAdvised(x, c, n, adv) ==
    /\ teams = [t \in TeamIds |->
                  [exists |-> TRUE, name |-> InitName[t], budget |-> InitBudget[t],
                   currentSpending |-> 0,
                   eightyPercentSent |-> FALSE, hundredPercentSent |-> FALSE,
                   loaded |-> FALSE]]
    /\ exps = x
    /\ created = c
    /\ slots = [s \in Slots |-> Idle]
    /\ left = n
    /\ delivered = [t \in TeamIds |-> [a \in AlertTypes |-> 0]]
    /\ hist = [e \in ExpIds |-> [trail |-> <<"pending">>, pos |-> 0, net |-> 0]]
    /\ advisor = adv

InitState(x, c, n) == InitAdvised(x, c, n, Unconfigured)

Init == InitState(InitExpenses, 2, MaxOps)


\* ------------------------------------------------- ExpenseService.update
\* Faulty variant of EntersApproved: the previous status is not read.
EntersApprovedAlways(dtoStatus, oldStatus) == dtoStatus = "approved"

\* "If expense was approved, update team's current spending"
EntersApproved(dtoStatus, oldStatus) ==
    dtoStatus = "approved" /\ oldStatus # "approved"

\* Faulty variant of LeavesApproved: leaving rejected subtracts too.
LeavesDecided(dtoStatus, oldStatus) ==
    oldStatus \in {"approved", "rejected"} /\ dtoStatus # "approved"

\* "If expense was unapproved (from approved to pending/rejected)": the test
\* is on the request's status, which is undefined when the request has none.
LeavesApproved(dtoStatus, oldStatus) ==
    oldStatus = "approved" /\ dtoStatus # "approved"

\* "If status changed to approved/rejected": approval info and notification.
IsDecision(dtoStatus, oldStatus) ==
    /\ dtoStatus # "none"
    /\ dtoStatus # oldStatus
    /\ dtoStatus \in {"approved", "rejected"}

\* team.currentSpending += expense.amount
AddSpending(spending, amount) == spending + amount

\* Faulty variant of SubtractSpending: the amount stays counted.
SubtractNothing(spending, amount) == spending

\* Faulty variant of SubtractSpending: no floor at zero.
SubtractUnfloored(spending, amount) == spending - amount

\* team.currentSpending = Math.max(0, team.currentSpending - expense.amount)
SubtractSpending(spending, amount) == Max(0, spending - amount)

\* The fields of the request applied to the loaded document.
ApplyDto(cur, d) ==
    [cur EXCEPT
       !.amount = IF d.amount = {} THEN @ ELSE CHOOSE a \in d.amount : TRUE,
       !.status = IF d.status = "none" THEN @ ELSE d.status,
       !.approvedBy = IF IsDecision(d.status, cur.status) THEN TRUE ELSE @]

\* Document.save() of an expense: $set of the paths that were modified.
SavedExpense(stored, doc, orig, stampApproval) ==
    [stored EXCEPT
       !.amount = IF doc.amount # orig.amount THEN doc.amount ELSE @,
       !.status = IF doc.status # orig.status THEN doc.status ELSE @,
       !.approvedBy = IF stampApproval THEN TRUE ELSE @]

\* Where update goes once the expense is saved and the submitter notified.
AfterNotify(sl) ==
    IF sl.op = "update"
    THEN IF EntersApproved(sl.dto.status, sl.oldStatus) THEN "loadTeamA"
         ELSE IF LeavesApproved(sl.dto.status, sl.oldStatus) THEN "loadTeamU"
         ELSE "ret"
    ELSE \* a bulkAction task
         IF EntersApproved(sl.dto.status, sl.oldStatus) THEN "loadTeamA" ELSE "ret"

\* findById, the field edits and the approval info, up to the save.
UpdateStart(s, e, d) ==
    /\ CanStart /\ s = FreeSlot
    /\ left' = left - 1
    /\ IF ~exps[e].exists
       THEN Set(s, [Idle EXCEPT !.op = "update", !.pc = "ret", !.e = e, !.dto = d,
                                !.res = "NotFound"])
       ELSE Set(s, [Idle EXCEPT !.op = "update", !.pc = "saveExp", !.e = e,
                                !.t = exps[e].team, !.dto = d,
                                !.oldStatus = exps[e].status,
                                !.doc = ApplyDto(exps[e], d), !.orig = exps[e],
                                !.late = Latched80])
    /\ UNCHANGED <<teams, exps, created, delivered, hist, advisor>>

\* await expense.save() (update and bulkAction).
SaveExpenseCore(s) ==
    LET sl == slots[s] IN
    /\ sl.pc = "saveExp"
    /\ IF ~exps[sl.e].exists
       THEN \* DocumentNotFoundError: the request fails
            /\ Set(s, [sl EXCEPT !.pc = "ret", !.res = "error", !.at = "saveExp"])
            /\ UNCHANGED exps
       ELSE /\ exps' = [exps EXCEPT ![sl.e] =
                          SavedExpense(@, sl.doc, sl.orig,
                                       sl.op = "bulk" \/ IsDecision(sl.dto.status, sl.oldStatus))]
            /\ Set(s, [sl EXCEPT !.pc =
                          IF sl.op = "bulk" \/ IsDecision(sl.dto.status, sl.oldStatus)
                          THEN "notify" ELSE AfterNotify(sl)])
    /\ UNCHANGED <<teams, created, left, delivered, advisor>>

\* await emailService.sendExpenseApprovalNotification(...): never throws.
Notify(s) ==
    LET sl == slots[s] IN
    /\ sl.pc = "notify"
    /\ Set(s, [sl EXCEPT !.pc = AfterNotify(sl)])
    /\ UNCHANGED <<teams, exps, created, left, delivered, hist, advisor>>

\* Faulty variant of SendExpenseApprovalNotification: no try/catch around the
\* send, the provider's error reaches the caller.
SendNotificationUncaught(hasClient, outcome) ==
    IF ~hasClient THEN "failure"
    ELSE IF outcome = "ok" THEN "success" ELSE "throw"

\* EmailService.sendExpenseApprovalNotification: {success: false} when there
\* is no client, and when the queued send throws (the catch returns it).
SendExpenseApprovalNotification(hasClient, outcome) ==
    IF ~hasClient THEN "failure"
    ELSE IF outcome = "ok" THEN "success" ELSE "failure"

\* How the queued send of an e-mail ends, its retries included.
SendOutcomes == {"ok", "throws"}

\* Notify, with what the e-mail service returned kept in note.
NotifyOutcome(s) ==
    LET sl == slots[s] IN
    /\ sl.pc = "notify"
    /\ \E hasClient \in BOOLEAN, outcome \in SendOutcomes :
         LET r == SendExpenseApprovalNotification(hasClient, outcome) IN
         Set(s, IF r = "throw" THEN Failed(sl)
                ELSE [sl EXCEPT !.note = r, !.pc = AfterNotify(sl)])
    /\ UNCHANGED <<teams, exps, created, left, delivered, hist, advisor>>

\* await teamModel.findById(teamId) on the three paths that move spending.
LoadTeam(s) ==
    LET sl == slots[s] IN
    /\ sl.pc \in {"loadTeamA", "loadTeamU", "loadTeamR"}
    /\ IF TeamExists(sl.t)
       THEN Set(s, [sl EXCEPT !.snap[sl.t] = Load(sl.t),
                              !.pc = CASE sl.pc = "loadTeamA" -> "saveSpendA"
                                       [] sl.pc = "loadTeamU" -> "saveSpendU"
                                       [] OTHER -> "saveSpendR"])
       ELSE Set(s, [sl EXCEPT !.pc = IF sl.pc = "loadTeamR" THEN "delete" ELSE "ret"])
    /\ UNCHANGED <<teams, exps, created, left, delivered, hist, advisor>>

\* team.currentSpending += expense.amount; await team.save(); then, in update
\* only, the alert is chosen from the document in hand.
SaveSpendACore(s) ==
    LET sl == slots[s]
        new == AddSpending(sl.snap[sl.t].currentSpending, sl.doc.amount)
        tm == [sl.snap[sl.t] EXCEPT !.currentSpending = new]
        alert == IF sl.op = "update"
                 THEN EvalAlertChain(new, tm.budget, tm.eightyPercentSent,
                                     tm.hundredPercentSent)
                 ELSE "none"
    IN
    /\ sl.pc = "saveSpendA"
    /\ IF ~teams[sl.t].exists
       THEN \* DocumentNotFoundError
            Set(s, Failed(sl)) /\ UNCHANGED teams
       ELSE /\ teams' = [teams EXCEPT ![sl.t].currentSpending =
                           IF new # sl.snap[sl.t].currentSpending THEN new ELSE @]
            /\ Set(s, [sl EXCEPT !.snap[sl.t] = tm, !.alert = alert,
                                 !.evT = IF sl.op = "update" THEN sl.t ELSE @,
                                 !.pc = IF alert = "none" THEN "ret" ELSE "sendAlert"])
    /\ UNCHANGED <<exps, created, left, delivered, advisor>>

\* team.currentSpending = Math.max(0, ...); await team.save() (update, remove).
SaveSpendUCore(s) ==
    LET sl == slots[s]
        new == SubtractSpending(sl.snap[sl.t].currentSpending, sl.doc.amount)
    IN
    /\ sl.pc \in {"saveSpendU", "saveSpendR"}
    /\ IF ~teams[sl.t].exists
       THEN Set(s, Failed(sl)) /\ UNCHANGED teams
       ELSE /\ teams' = [teams EXCEPT ![sl.t].currentSpending =
                           IF new # sl.snap[sl.t].currentSpending THEN new ELSE @]
            /\ Set(s, [sl EXCEPT !.snap[sl.t].currentSpending = new,
                                 !.pc = IF sl.pc = "saveSpendR" THEN "delete" ELSE "ret"])
    /\ UNCHANGED <<exps, created, left, delivered, advisor>>

\* await emailService.sendBudgetAlert(team, type): it catches every error and
\* returns {success: false}; no caller reads what it returns.
SendAlert(s) ==
    LET sl == slots[s] IN
    /\ sl.pc = "sendAlert"
    /\ \E ok \in BOOLEAN :
         /\ Set(s, [sl EXCEPT !.mailOk = ok, !.pc = "saveLatch"])
         /\ delivered' = [delivered EXCEPT ![sl.evT][sl.alert] = IF ok THEN @ + 1 ELSE @]
    /\ UNCHANGED <<teams, exps, created, left, hist, advisor>>

\* The rest of findAll's loop after the team at the head of todo.
NextTeam(sl) ==
    IF sl.op # "findAll" THEN [sl EXCEPT !.pc = "ret"]
    ELSE IF Len(sl.todo) <= 1 THEN [sl EXCEPT !.pc = "ret", !.todo = <<>>]
    ELSE [sl EXCEPT !.pc = "check", !.todo = Tail(sl.todo)]

\* team.budgetAlerts.<latch> = true; await team.save()
SaveLatch(s) ==
    LET sl == slots[s]
        t == sl.evT
    IN
    /\ sl.pc = "saveLatch"
    /\ IF ~teams[t].exists
       THEN \* DocumentNotFoundError, caught in checkAndSendBudgetAlerts only
            /\ Set(s, IF sl.op = "findAll" THEN NextTeam(sl) ELSE Failed(sl))
            /\ UNCHANGED teams
       ELSE /\ teams' = [teams EXCEPT ![t] =
                           IF sl.alert = "hundred_percent"
                           THEN [@ EXCEPT !.hundredPercentSent = TRUE]
                           ELSE [@ EXCEPT !.eightyPercentSent = TRUE]]
            /\ Set(s, NextTeam([sl EXCEPT !.snap[t] =
                           IF sl.alert = "hundred_percent"
                           THEN [@ EXCEPT !.hundredPercentSent = TRUE]
                           ELSE [@ EXCEPT !.eightyPercentSent = TRUE]]))
    /\ UNCHANGED <<exps, created, left, delivered, hist, advisor>>

\* The handler returns (update: after savedExpense.populate).
Return(s) ==
    /\ slots[s].pc = "ret"
    /\ Set(s, Idle)
    /\ UNCHANGED <<teams, exps, created, left, delivered, hist, advisor>>


\* ---------------------------------------------- ExpenseService.bulkAction
\* Id lists of a bulk request: one id, two ids, or the same id twice.
BulkIdLists ==
    {<<e>> : e \in ExpIds} \cup {<<e, f>> : e \in ExpIds, f \in ExpIds}

Range(q) == {q[i] : i \in DOMAIN q}

\* find({_id: {$in: expenseIds}})
FoundExpenses(ids) == {e \in Range(ids) : exps[e].exists}

BulkStatus(action) == IF action = "approve" THEN "approved" ELSE "rejected"

\* Faulty variant of BulkTask: the task works on the first team, whatever
\* team the expense belongs to.
BulkTaskOnFirstTeam(e, newStatus) ==
    [Idle EXCEPT !.op = "bulk", !.pc = "saveExp", !.e = e, !.t = "t1",
                 !.dto = [status |-> newStatus, amount |-> {}],
                 !.oldStatus = exps[e].status,
                 !.doc = [exps[e] EXCEPT !.status = newStatus, !.approvedBy = TRUE],
                 !.orig = exps[e], !.late = Latched80]

\* One task of expenses.map(async ...), run up to its first await: the
\* status and the approval info are set and the save is issued.
BulkTask(e, newStatus) ==
    [Idle EXCEPT !.op = "bulk", !.pc = "saveExp", !.e = e, !.t = exps[e].team,
                 !.dto = [status |-> newStatus, amount |-> {}],
                 !.oldStatus = exps[e].status,
                 !.doc = [exps[e] EXCEPT !.status = newStatus, !.approvedBy = TRUE],
                 !.orig = exps[e], !.late = Latched80]

\* The k-th idle slot, lowest first.
RECURSIVE NthOf(_, _)
NthOf(S, k) ==
    LET m == CHOOSE s \in S : \A r \in S : s <= r
    IN IF k = 1 THEN m ELSE NthOf(S \ {m}, k - 1)

RECURSIVE Sorted(_)
Sorted(S) ==
    IF S = {} THEN <<>>
    ELSE LET m == CHOOSE e \in S : \A f \in S :
                    (CHOOSE i \in 1..3 : IdOrder[i] = e) <= (CHOOSE i \in 1..3 : IdOrder[i] = f)
         IN <<m>> \o Sorted(S \ {m})

\* Faulty variant of BulkStart: no existence check, a task for every expense
\* that was found.
BulkStartUnchecked(ids, action) ==
    LET found == Sorted(FoundExpenses(ids))
        n == Len(found)
    IN
    /\ CanStart
    /\ left' = left - 1
    /\ n <= Cardinality(IdleSlots)
    /\ slots' = [s \in Slots |->
                   IF \E k \in 1..n : NthOf(IdleSlots, k) = s
                   THEN BulkTask(found[CHOOSE k \in 1..n : NthOf(IdleSlots, k) = s],
                                 BulkStatus(action))
                   ELSE slots[s]]
    /\ UNCHANGED <<teams, exps, created, delivered, hist, advisor>>

\* The existence check, then every task started at once.
BulkStart(ids, action) ==
    LET found == Sorted(FoundExpenses(ids))
        n == Len(found)
    IN
    /\ CanStart
    /\ left' = left - 1
    /\ IF n # Len(ids)
       THEN Set(FreeSlot, [Idle EXCEPT !.op = "bulk", !.pc = "ret", !.res = "BadRequest"])
       ELSE /\ n <= Cardinality(IdleSlots)
            /\ slots' = [s \in Slots |->
                           IF \E k \in 1..n : NthOf(IdleSlots, k) = s
                           THEN BulkTask(found[CHOOSE k \in 1..n : NthOf(IdleSlots, k) = s],
                                         BulkStatus(action))
                           ELSE slots[s]]
    /\ UNCHANGED <<teams, exps, created, delivered, hist, advisor>>

\* -------------------------------------------------- ExpenseService.remove
RemoveStart(s, e) ==
    /\ CanStart /\ s = FreeSlot
    /\ left' = left - 1
    /\ IF ~exps[e].exists
       THEN Set(s, [Idle EXCEPT !.op = "remove", !.pc = "ret", !.e = e, !.res = "NotFound"])
       ELSE Set(s, [Idle EXCEPT !.op = "remove", !.e = e, !.t = exps[e].team,
                                !.oldStatus = exps[e].status,
                                !.doc = exps[e], !.orig = exps[e], !.late = Latched80,
                                !.pc = IF exps[e].status = "approved"
                                       THEN "loadTeamR" ELSE "delete"])
    /\ UNCHANGED <<teams, exps, created, delivered, hist, advisor>>

\* await expenseModel.findByIdAndDelete(id)
DeleteExpense(s) ==
    LET sl == slots[s] IN
    /\ sl.pc = "delete"
    /\ exps' = [exps EXCEPT ![sl.e] = NoExpense]
    /\ Set(s, [sl EXCEPT !.pc = "ret"])
    /\ UNCHANGED <<teams, created, left, delivered, hist, advisor>>

\* -------------------------------------------------- ExpenseService.create
\* The status a new document gets: the request's, else the schema default.
CreatedStatus(dtoStatus) == IF dtoStatus = "none" THEN "pending" ELSE dtoStatus

\* Faulty variant of CreateStart: the team is not looked up.
CreateStartUnchecked(s, t, a, st) ==
    /\ CanStart /\ s = FreeSlot
    /\ created < Len(IdOrder)
    /\ left' = left - 1
    /\ Set(s, [Idle EXCEPT !.op = "create", !.t = t,
                           !.dto = [status |-> st, amount |-> {a}],
                           !.late = Latched80,
                           !.pc = IF advisor.configured THEN "suggest" ELSE "recent",
                           !.sug = IF advisor.configured THEN "unset" ELSE "fail"])
    /\ UNCHANGED <<teams, exps, created, delivered, hist, advisor>>

\* findById(team): BadRequest when there is none.  suggestExpenseCategory
\* returns at once, with no success, when the service has no client.
CreateStart(s, t, a, st) ==
    /\ CanStart /\ s = FreeSlot
    /\ created < Len(IdOrder)
    /\ left' = left - 1
    /\ IF ~TeamExists(t)
       THEN Set(s, [Idle EXCEPT !.op = "create", !.pc = "ret", !.t = t, !.res = "BadRequest"])
       ELSE Set(s, [Idle EXCEPT !.op = "create", !.t = t,
                                !.dto = [status |-> st, amount |-> {a}],
                                !.late = Latched80,
                                !.pc = IF advisor.configured THEN "suggest" ELSE "recent",
                                !.sug = IF advisor.configured THEN "unset" ELSE "fail"])
    /\ UNCHANGED <<teams, exps, created, delivered, hist, advisor>>

\* The attempts of one withRetry call: what the provider answers to each.
MaxRetries == 2
AttemptOutcomes == {"ok", "rate", "err"}
ProviderAnswers == [1..(MaxRetries + 1) -> AttemptOutcomes]

\* AiService.withRetry from attempt on: a rate-limit error opens the cooldown
\* and is retried unless the attempt is the last; any other error is thrown.
RECURSIVE WithRetry(_, _, _)
WithRetry(outs, attempt, lim) ==
    IF outs[attempt + 1] = "ok" THEN [ok |-> TRUE, limited |-> FALSE]
    ELSE IF outs[attempt + 1] = "rate"
         THEN IF attempt < MaxRetries THEN WithRetry(outs, attempt + 1, TRUE)
              ELSE [ok |-> FALSE, limited |-> TRUE]
    ELSE [ok |-> FALSE, limited |-> lim]

\* AiService.queueRequest(fn): withRetry throws at once during the cooldown.
QueueRequest(adv, outs) ==
    IF adv.limited THEN [ok |-> FALSE, limited |-> TRUE]
    ELSE WithRetry(outs, 0, adv.limited)

\* await aiService.suggestExpenseCategory(...): every error is caught and
\* returned as {success: false}; so is an answer that is not a category.
Suggest(s) ==
    LET sl == slots[s] IN
    /\ sl.pc = "suggest"
    /\ \E r \in {QueueRequest(advisor, outs) : outs \in ProviderAnswers}, valid \in BOOLEAN :
         /\ advisor' = [advisor EXCEPT !.limited = r.limited]
         /\ Set(s, [sl EXCEPT !.pc = "recent",
                              !.sug = IF r.ok /\ valid THEN "category" ELSE "fail"])
    /\ UNCHANGED <<teams, exps, created, left, delivered, hist>>

\* The expenses of the team dated in the last 30 days (every expense of the
\* model is).
RecentExpenses(t) == {e \in ExpIds : exps[e].exists /\ exps[e].team = t}

\* await expenseModel.find({team, date >= now - 30 days}).limit(10); then
\* detectDuplicateExpense returns at once when the service has no client
\* (no success) or when nothing was found (success, no duplicate).
Recent(s) ==
    LET sl == slots[s] IN
    /\ sl.pc = "recent"
    /\ Set(s, IF ~advisor.configured THEN [sl EXCEPT !.pc = "insert", !.det = "fail"]
              ELSE IF RecentExpenses(sl.t) = {}
                   THEN [sl EXCEPT !.pc = "insert", !.det = "unique"]
              ELSE [sl EXCEPT !.pc = "detect"])
    /\ UNCHANGED <<teams, exps, created, left, delivered, hist, advisor>>

\* What the provider's answer to the duplicate question holds.
Contents == {"empty", "malformed", "duplicate", "unique"}

\* await aiService.detectDuplicateExpense(...): every error (JSON.parse's too)
\* is caught and returned as {success: false}.
Detect(s) ==
    LET sl == slots[s] IN
    /\ sl.pc = "detect"
    /\ \E r \in {QueueRequest(advisor, outs) : outs \in ProviderAnswers}, content \in Contents :
         /\ advisor' = [advisor EXCEPT !.limited = r.limited]
         /\ Set(s, [sl EXCEPT !.pc = "insert",
                              !.det = IF r.ok /\ content \in {"duplicate", "unique"}
                                      THEN content ELSE "fail"])
    /\ UNCHANGED <<teams, exps, created, left, delivered, hist>>

\* now >= rateLimitResetTime: the 60 seconds of the cooldown have passed.
CooldownEnds ==
    /\ advisor.limited
    /\ advisor' = [advisor EXCEPT !.limited = FALSE]
    /\ UNCHANGED <<teams, exps, created, slots, left, delivered, hist>>

\* Faulty variant of DuplicateFlag: a failed check flags the expense.
DuplicateUnlessUnique(det) == det # "unique"

\* isDuplicate: duplicateCheck.success ? duplicateCheck.isDuplicate : false
DuplicateFlag(det) == det = "duplicate"

\* aiSuggestedCategory: null unless aiSuggestion.success
SuggestedCategory(sug) == IF sug = "category" THEN "category" ELSE "none"

\* await expense.save() of the new document.
InsertExpense(s) ==
    LET sl == slots[s] IN
    /\ sl.pc = "insert"
    /\ created < Len(IdOrder)
    /\ created' = created + 1
    /\ exps' = [exps EXCEPT ![IdOrder[created + 1]] =
                  [exists |-> TRUE, team |-> sl.t,
                   amount |-> CHOOSE a \in sl.dto.amount : TRUE,
                   status |-> CreatedStatus(sl.dto.status), approvedBy |-> FALSE,
                   aiSuggestedCategory |-> SuggestedCategory(sl.sug),
                   isDuplicate |-> DuplicateFlag(sl.det)]]
    /\ Set(s, [sl EXCEPT !.pc = "ret", !.e = IdOrder[created + 1]])
    /\ UNCHANGED <<teams, left, delivered, hist, advisor>>

\* ----------------------------------------------------- TeamService.remove
\* findById(id): NotFound when there is none.
TeamRemoveStart(s, t) ==
    /\ CanStart /\ s = FreeSlot
    /\ left' = left - 1
    /\ IF ~TeamExists(t)
       THEN Set(s, [Idle EXCEPT !.op = "teamRemove", !.pc = "ret", !.t = t,
                                !.res = "NotFound"])
       ELSE Set(s, [Idle EXCEPT !.op = "teamRemove", !.pc = "count", !.t = t])
    /\ UNCHANGED <<teams, exps, created, delivered, hist, advisor>>

\* expenseModel.countDocuments({team: id})
ExpenseCount(t) == Cardinality({e \in ExpIds : exps[e].exists /\ exps[e].team = t})

\* await countDocuments: BadRequest when an expense references the team.
CountExpenses(s) ==
    LET sl == slots[s] IN
    /\ sl.pc = "count"
    /\ Set(s, IF ExpenseCount(sl.t) > 0
              THEN [sl EXCEPT !.pc = "ret", !.res = "BadRequest"]
              ELSE [sl EXCEPT !.pc = "deleteTeam"])
    /\ UNCHANGED <<teams, exps, created, left, delivered, hist, advisor>>

\* await teamModel.findByIdAndDelete(id)
DeleteTeam(s) ==
    LET sl == slots[s] IN
    /\ sl.pc = "deleteTeam"
    /\ teams' = [teams EXCEPT ![sl.t] = NoTeam]
    /\ Set(s, [sl EXCEPT !.pc = "ret"])
    /\ UNCHANGED <<exps, created, left, delivered, hist, advisor>>

\* ----------------------------------------------------- TeamService.create
TeamBudgets == {2, 5}
TeamDtos == [name : TeamNames \cup {"none"}, budget : {{}} \cup {{b} : b \in TeamBudgets}]

\* teamModel.findOne({name, _id: {$ne: id}}) finds a document.
NameTaken(nm, id) == \E t \in TeamIds : t # id /\ teams[t].exists /\ teams[t].name = nm

\* Ids of no stored team; the store hands them out in TeamOrder's reverse.
FreeTeamIds == {t \in TeamIds : ~teams[t].exists}
NewTeamId == CHOOSE t \in FreeTeamIds :
                \A u \in FreeTeamIds :
                   (CHOOSE i \in 1..Len(TeamOrder) : TeamOrder[i] = t)
                      >= (CHOOSE i \in 1..Len(TeamOrder) : TeamOrder[i] = u)

\* Creations that passed the name check and have not saved yet.
PendingTeams == {s \in Slots : slots[s].op = "teamCreate" /\ slots[s].pc = "insertTeam"}

\* findOne({name}): BadRequest when a team has the name.
TeamCreateStart(s, nm, b) ==
    /\ CanStart /\ s = FreeSlot
    /\ Cardinality(FreeTeamIds) > Cardinality(PendingTeams)
    /\ left' = left - 1
    /\ IF NameTaken(nm, GhostTeam)
       THEN Set(s, [Idle EXCEPT !.op = "teamCreate", !.pc = "ret", !.res = "BadRequest",
                                !.tdto = [name |-> nm, budget |-> {b}]])
       ELSE Set(s, [Idle EXCEPT !.op = "teamCreate", !.pc = "insertTeam",
                                !.tdto = [name |-> nm, budget |-> {b}]])
    /\ UNCHANGED <<teams, exps, created, delivered, hist, advisor>>

\* team.save() of the new document: the schema defaults fill the rest.
InsertTeam(s) ==
    LET sl == slots[s] IN
    /\ sl.pc = "insertTeam"
    /\ teams' = [teams EXCEPT ![NewTeamId] =
                   [NoTeam EXCEPT !.exists = TRUE, !.name = sl.tdto.name,
                                  !.budget = CHOOSE b \in sl.tdto.budget : TRUE]]
    /\ Set(s, [sl EXCEPT !.pc = "ret", !.t = NewTeamId])
    /\ UNCHANGED <<exps, created, left, delivered, hist, advisor>>

\* ----------------------------------------------------- TeamService.update
\* Object.assign(team, updateTeamDto): the validation pipe's whitelist leaves
\* name, budget and members in the request.
AssignDto(tm, d) ==
    [tm EXCEPT !.name = IF d.name = "none" THEN @ ELSE d.name,
               !.budget = IF d.budget = {} THEN @ ELSE CHOOSE b \in d.budget : TRUE]

\* Faulty variant of SavedTeam: the whole document in hand is written.
SavedTeamWhole(stored, doc, orig) == [doc EXCEPT !.loaded = stored.loaded]

\* Document.save() of a team: $set of the paths that were modified.
SavedTeam(stored, doc, orig) ==
    [stored EXCEPT
       !.name = IF doc.name # orig.name THEN doc.name ELSE @,
       !.budget = IF doc.budget # orig.budget THEN doc.budget ELSE @]

\* findById(id): NotFound when there is none.  The name is looked up only
\* when the request carries one that differs from the team's.
TeamUpdateStart(s, t, d) ==
    /\ CanStart /\ s = FreeSlot
    /\ left' = left - 1
    /\ IF ~TeamExists(t)
       THEN Set(s, [Idle EXCEPT !.op = "teamUpdate", !.pc = "ret", !.t = t, !.tdto = d,
                                !.res = "NotFound"])
       ELSE Set(s, [Idle EXCEPT !.op = "teamUpdate", !.t = t, !.tdto = d,
                                !.snap[t] = Load(t), !.late = Latched80,
                                !.pc = IF d.name # "none" /\ d.name # teams[t].name
                                       THEN "findName" ELSE "saveTeam"])
    /\ UNCHANGED <<teams, exps, created, delivered, hist, advisor>>

\* await findOne({name, _id: {$ne: id}}): BadRequest when another team has
\* the name.
FindName(s) ==
    LET sl == slots[s] IN
    /\ sl.pc = "findName"
    /\ Set(s, IF NameTaken(sl.tdto.name, sl.t)
              THEN [sl EXCEPT !.pc = "ret", !.res = "BadRequest"]
              ELSE [sl EXCEPT !.pc = "saveTeam"])
    /\ UNCHANGED <<teams, exps, created, left, delivered, hist, advisor>>

\* Object.assign(team, updateTeamDto); return team.save()
SaveTeam(s) ==
    LET sl == slots[s]
        doc == AssignDto(sl.snap[sl.t], sl.tdto)
    IN
    /\ sl.pc = "saveTeam"
    /\ IF ~teams[sl.t].exists
       THEN Set(s, Failed(sl)) /\ UNCHANGED teams
       ELSE /\ teams' = [teams EXCEPT ![sl.t] = SavedTeam(@, doc, sl.snap[sl.t])]
            /\ Set(s, [sl EXCEPT !.snap[sl.t] = doc, !.pc = "ret"])
    /\ UNCHANGED <<exps, created, left, delivered, hist, advisor>>

\* ------------------------------- TeamService.findOne and getBudgetStatus
\* findById(id): NotFound when there is none.  op is "findOne" or "status".
RecomputeStart(s, op, t) ==
    /\ CanStart /\ s = FreeSlot
    /\ left' = left - 1
    /\ IF ~TeamExists(t)
       THEN Set(s, [Idle EXCEPT !.op = op, !.pc = "ret", !.t = t, !.res = "NotFound"])
       ELSE Set(s, [Idle EXCEPT !.op = op, !.pc = "calc", !.t = t,
                                !.snap[t] = Load(t), !.late = Latched80])
    /\ UNCHANGED <<teams, exps, created, delivered, hist, advisor>>

\* await this.calculateCurrentSpending(id)
Calc(s) ==
    LET sl == slots[s] IN
    /\ sl.pc = "calc"
    /\ Set(s, [sl EXCEPT !.total = CalculateCurrentSpending(sl.t, exps),
                         !.pc = "saveCalc"])
    /\ UNCHANGED <<teams, exps, created, left, delivered, hist, advisor>>

\* alertStatus: { eightyPercentSent: team.budgetAlerts.eightyPercentSent,
\*                hundredPercentSent: team.budgetAlerts.hundredPercentSent }
\* The two flags are copied out of the document when the object is built.
AlertStatus(tm) == [eightyPercentSent |-> tm.eightyPercentSent,
                    hundredPercentSent |-> tm.hundredPercentSent]

\* team.currentSpending = currentSpending; await team.save(); getBudgetStatus
\* then builds the budgetStatus it will return and chooses the alert from the
\* recomputed total.
SaveCalc(s) ==
    LET sl == slots[s]
        tm == [sl.snap[sl.t] EXCEPT !.currentSpending = sl.total]
        alert == IF sl.op = "status"
                 THEN EvalAlertChain(sl.total, tm.budget, tm.eightyPercentSent,
                                     tm.hundredPercentSent)
                 ELSE "none"
    IN
    /\ sl.pc = "saveCalc"
    /\ IF ~teams[sl.t].exists
       THEN Set(s, Failed(sl)) /\ UNCHANGED teams
       ELSE /\ teams' = [teams EXCEPT ![sl.t].currentSpending =
                           IF sl.total # sl.snap[sl.t].currentSpending THEN sl.total ELSE @]
            /\ Set(s, [sl EXCEPT !.snap[sl.t] = tm, !.alert = alert,
                                 !.evT = IF sl.op = "status" THEN sl.t ELSE @,
                                 !.reply = IF sl.op = "status" THEN AlertStatus(tm) ELSE @,
                                 !.pc = IF alert = "none" THEN "ret" ELSE "sendAlert"])
    /\ UNCHANGED <<exps, created, left, delivered, hist, advisor>>

\* ----------------------------------------------------- TeamService.findAll
\* The teams the collection holds, newest first.
StoredTeams == SelectSeq(TeamOrder, LAMBDA t : teams[t].exists)

\* find().sort({createdAt: -1}): every team is loaded at once.
FindAllStart(s) ==
    /\ CanStart /\ s = FreeSlot
    /\ left' = left - 1
    /\ Set(s, IF StoredTeams = <<>>
              THEN [Idle EXCEPT !.op = "findAll", !.pc = "ret"]
              ELSE [Idle EXCEPT !.op = "findAll", !.pc = "check", !.todo = StoredTeams,
                                !.snap = [t \in TeamIds |->
                                            IF teams[t].exists THEN Load(t) ELSE NoTeam],
                                !.late = Latched80])
    /\ UNCHANGED <<teams, exps, created, delivered, hist, advisor>>

\* await this.checkAndSendBudgetAlerts(team), up to its first await.
CheckAlerts(s) ==
    LET sl == slots[s]
        t == Head(sl.todo)
        tm == sl.snap[t]
        alert == EvalAlertFindAll(tm.currentSpending, tm.budget,
                                  tm.eightyPercentSent, tm.hundredPercentSent)
    IN
    /\ sl.pc = "check"
    /\ Set(s, IF alert = "none"
              THEN NextTeam([sl EXCEPT !.alert = alert, !.evT = t])
              ELSE [sl EXCEPT !.alert = alert, !.evT = t, !.pc = "sendAlert"])
    /\ UNCHANGED <<teams, exps, created, left, delivered, hist, advisor>>


\* ------------------------------------------------------------ the observer
\* hist records, for the expense a single update works on, the statuses its
\* saves wrote (trail), the additions to currentSpending (pos) and the sum of
\* the changes its saves made to currentSpending (net).
SaveExpense(s) == SaveExpenseCore(s) /\ UNCHANGED hist
SaveSpendA(s) == SaveSpendACore(s) /\ UNCHANGED hist
SaveSpendU(s) == SaveSpendUCore(s) /\ UNCHANGED hist

ObservedSaveExpense(s) ==
    /\ SaveExpenseCore(s)
    /\ hist' = [hist EXCEPT ![slots[s].e].trail =
                  IF exps'[slots[s].e].status # exps[slots[s].e].status
                  THEN Append(@, exps'[slots[s].e].status) ELSE @]

ObservedSaveSpendA(s) ==
    /\ SaveSpendACore(s)
    /\ hist' = [hist EXCEPT
                  ![slots[s].e].pos = @ + 1,
                  ![slots[s].e].net = @ + teams'[slots[s].t].currentSpending
                                        - teams[slots[s].t].currentSpending]

ObservedSaveSpendU(s) ==
    /\ SaveSpendUCore(s)
    /\ hist' = [hist EXCEPT
                  ![slots[s].e].net = @ + teams'[slots[s].t].currentSpending
                                        - teams[slots[s].t].currentSpending]

\* --------------------------------------------------- document store faults
\* The awaits that are calls to the document store.
StorePcs == {"saveExp", "loadTeamA", "loadTeamU", "loadTeamR", "saveSpendA",
             "saveSpendU", "saveSpendR", "saveLatch", "calc", "saveCalc",
             "delete", "insert", "recent", "count", "deleteTeam",
             "insertTeam", "findName", "saveTeam"}

\* A store call rejects.  Nothing in the services catches it, except the
\* try/catch of checkAndSendBudgetAlerts around the latch save: the request
\* (or the bulkAction task) ends there.
StoreFails(s) ==
    LET sl == slots[s] IN
    /\ sl.pc \in StorePcs
    /\ IF sl.op = "findAll"
       THEN Set(s, NextTeam(sl))
       ELSE Set(s, Failed(sl))
    /\ UNCHANGED <<teams, exps, created, left, delivered, hist, advisor>>

\* ---------------------------------------------------------- specifications
Dtos == [status : Statuses \cup {"none"}, amount : {{}} \cup {{a} : a \in Amounts}]

Start ==
    \/ \E s \in Slots, e \in ExpIds, d \in Dtos : UpdateStart(s, e, d)
    \/ \E ids \in BulkIdLists, action \in {"approve", "reject"} : BulkStart(ids, action)
    \/ \E s \in Slots, e \in ExpIds : RemoveStart(s, e)
    \/ \E s \in Slots, t \in TeamIds \cup {GhostTeam}, a \in Amounts,
          st \in Statuses \cup {"none"} : CreateStart(s, t, a, st)
    \/ \E s \in Slots, op \in {"findOne", "status"}, t \in TeamIds \cup {GhostTeam} :
          RecomputeStart(s, op, t)
    \/ \E s \in Slots : FindAllStart(s)

Step ==
    \E s \in Slots :
       \/ SaveExpense(s)
       \/ Notify(s)
       \/ LoadTeam(s)
       \/ SaveSpendA(s)
       \/ SaveSpendU(s)
       \/ SendAlert(s)
       \/ SaveLatch(s)
       \/ DeleteExpense(s)
       \/ Recent(s)
       \/ InsertExpense(s)
       \/ Calc(s)
       \/ SaveCalc(s)
       \/ CheckAlerts(s)
       \/ Return(s)

\* Requests arrive at any time and their awaits interleave.
Next == Start \/ Step

Spec == Init /\ [][Next]_vars

\* Requests run one at a time: a request is accepted when nothing is running
\* (the tasks of one bulkAction still interleave).
SeqNext == (AllIdle /\ Start) \/ Step

SeqInit == InitState(InitExpenses, 2, MaxSeqOps)

SeqSpec == SeqInit /\ [][SeqNext]_vars

\* Spec with a document store whose calls may fail.
FaultNext == Next \/ \E s \in Slots : StoreFails(s)

FaultSpec == Init /\ [][FaultNext]_vars


\* The awaits of update, bulkAction and remove.
MutationStep ==
    \E s \in Slots :
       \/ SaveExpense(s)
       \/ Notify(s)
       \/ LoadTeam(s)
       \/ SaveSpendA(s)
       \/ SaveSpendU(s)
       \/ SendAlert(s)
       \/ SaveLatch(s)
       \/ DeleteExpense(s)
       \/ Return(s)

\* The three mutation paths of the expense service, one request at a time.
MutationNext ==
    \/ /\ AllIdle
       /\ \/ \E s \in Slots, e \in ExpIds, d \in Dtos : UpdateStart(s, e, d)
          \/ \E ids \in BulkIdLists, action \in {"approve", "reject"} : BulkStart(ids, action)
          \/ \E s \in Slots, e \in ExpIds : RemoveStart(s, e)
    \/ MutationStep

MutationSpec == SeqInit /\ [][MutationNext]_vars

\* N pending expenses of one amount A on team t1, approved by overlapping
\* requests, each expense by one request only.
ApproveInit ==
    \E a \in Amounts :
       InitState([e \in ExpIds |-> [NoExpense EXCEPT !.exists = TRUE, !.team = "t1",
                                                      !.amount = a]],
                 Len(IdOrder), MaxOps)

Untouched(e) ==
    /\ exps[e].exists /\ exps[e].status = "pending"
    /\ \A s \in Slots : slots[s].op = "idle" \/ slots[s].e # e

ApproveDto == [status |-> "approved", amount |-> {}]

ApproveNext ==
    \/ \E s \in Slots, e \in ExpIds : Untouched(e) /\ UpdateStart(s, e, ApproveDto)
    \/ \E ids \in BulkIdLists :
          /\ \A i \in DOMAIN ids : Untouched(ids[i])
          /\ Cardinality(Range(ids)) = Len(ids)
          /\ BulkStart(ids, "approve")
    \/ \E s \in Slots :
          \/ SaveExpense(s)
          \/ Notify(s)
          \/ LoadTeam(s)
          \/ SaveSpendA(s)
          \/ SendAlert(s)
          \/ SaveLatch(s)
          \/ Return(s)

ApproveSpec == ApproveInit /\ [][ApproveNext]_vars

\* One request at a time, each an update that carries a status only; the
\* observer is on.
DriveNext ==
    \/ /\ AllIdle
       /\ \E s \in Slots, e \in ExpIds, st \in Statuses :
             UpdateStart(s, e, [status |-> st, amount |-> {}])
    \/ \E s \in Slots :
          \/ ObservedSaveExpense(s)
          \/ Notify(s)
          \/ LoadTeam(s)
          \/ ObservedSaveSpendA(s)
          \/ ObservedSaveSpendU(s)
          \/ SendAlert(s)
          \/ SaveLatch(s)
          \/ Return(s)

DriveSpec == SeqInit /\ [][DriveNext]_vars

\* One request at a time, each an update with any request body; the observer
\* is on.
AmendNext ==
    \/ /\ AllIdle
       /\ \E s \in Slots, e \in ExpIds, d \in Dtos : UpdateStart(s, e, d)
    \/ \E s \in Slots :
          \/ ObservedSaveExpense(s)
          \/ Notify(s)
          \/ LoadTeam(s)
          \/ ObservedSaveSpendA(s)
          \/ ObservedSaveSpendU(s)
          \/ SendAlert(s)
          \/ SaveLatch(s)
          \/ Return(s)

AmendSpec == SeqInit /\ [][AmendNext]_vars

\* Expense creations and team removals, overlapping.
TeamNext ==
    \/ \E s \in Slots, t \in TeamIds \cup {GhostTeam}, a \in Amounts,
          st \in Statuses \cup {"none"} : CreateStart(s, t, a, st)
    \/ \E s \in Slots, t \in TeamIds \cup {GhostTeam} : TeamRemoveStart(s, t)
    \/ \E s \in Slots :
          \/ Recent(s)
          \/ InsertExpense(s)
          \/ CountExpenses(s)
          \/ DeleteTeam(s)
          \/ Return(s)

TeamSpec == Init /\ [][TeamNext]_vars

\* ------------------------------- AiService.queueRequest, await by await
\* requestQueue is a promise chain: advisor.queue holds the requests whose
\* withRetry has not settled yet, in the order they were submitted; the head
\* is the one the chain has reached.

\* Faulty variant of Startable: a request starts as soon as it is submitted.
StartableAtOnce(queue, s) == \E i \in DOMAIN queue : queue[i] = s

\* requestQueue.then(() => this.withRetry(fn)): the callback runs when every
\* request submitted before has settled.
Startable(queue, s) == queue # <<>> /\ Head(queue) = s

\* Faulty variant of AfterSettle: a rejected withRetry leaves the chain
\* rejected, the requests behind it are never reached.
AfterSettleUncaught(queue, out) == IF out = "ok" THEN Tail(queue) ELSE queue

\* .then(resolve).catch(reject): the chain's promise is fulfilled whether
\* withRetry returned or threw, and the next callback is reached.
AfterSettle(queue, out) == Tail(queue)

\* if (!isLastAttempt) { await delay; continue }, for a rate-limit error.
Retries(outcome, attempt) == outcome = "rate" /\ attempt < MaxRetries

\* Faulty variant of Caught: the error of the queued request is thrown on.
Uncaught(out) == IF out = "ok" THEN "answer" ELSE "throw"

\* try { ... await this.queueRequest(...) ... } catch (error) { return
\* { success: false, ... } } in suggestExpenseCategory and
\* detectDuplicateExpense.
Caught(out) == IF out = "ok" THEN "answer" ELSE "fail"

\* queueRequest(fn), called by suggestExpenseCategory (pc "suggest") or by
\* detectDuplicateExpense (pc "detect"): the request joins the chain.
Submit(s) ==
    LET sl == slots[s] IN
    /\ sl.pc \in {"suggest", "detect"}
    /\ advisor' = [advisor EXCEPT !.queue = Append(@, s)]
    /\ Set(s, [sl EXCEPT !.pc = "queued", !.ask = sl.pc, !.attempt = 0, !.out = "none"])
    /\ UNCHANGED <<teams, exps, created, left, delivered, hist>>

\* withRetry begins: during the cooldown it throws at once; otherwise attempt
\* 0 waits for the minimum spacing and calls the provider.
StartRequest(s) ==
    LET sl == slots[s] IN
    /\ sl.pc = "queued"
    /\ Startable(advisor.queue, s)
    /\ Set(s, IF advisor.limited THEN [sl EXCEPT !.pc = "settle", !.out = "fail"]
              ELSE [sl EXCEPT !.pc = "calling"])
    /\ UNCHANGED <<teams, exps, created, left, delivered, hist, advisor>>

\* await fn() returns or throws.  A result closes the cooldown; a rate-limit
\* error opens it and is retried after the backoff unless the attempt is the
\* last; any other error is thrown.
Answer(s, outcome) ==
    LET sl == slots[s] IN
    /\ sl.pc = "calling"
    /\ advisor' = [advisor EXCEPT !.limited = IF outcome = "ok" THEN FALSE
                                              ELSE IF outcome = "rate" THEN TRUE
                                              ELSE @]
    /\ Set(s, IF outcome = "ok" THEN [sl EXCEPT !.pc = "settle", !.out = "ok"]
              ELSE IF Retries(outcome, sl.attempt) THEN [sl EXCEPT !.pc = "backoff"]
              ELSE [sl EXCEPT !.pc = "settle", !.out = "fail"])
    /\ UNCHANGED <<teams, exps, created, left, delivered, hist>>

\* The backoff timer fires: continue with attempt + 1, which waits for the
\* spacing and calls the provider; the cooldown is not looked at again.
Retry(s) ==
    LET sl == slots[s] IN
    /\ sl.pc = "backoff"
    /\ Set(s, [sl EXCEPT !.pc = "calling", !.attempt = sl.attempt + 1])
    /\ UNCHANGED <<teams, exps, created, left, delivered, hist, advisor>>

\* withRetry has settled: the chain moves on and the caller's await resumes,
\* in suggestExpenseCategory or detectDuplicateExpense, which return the
\* answer if it is usable and {success: false} otherwise.
Settle(s) ==
    LET sl == slots[s]
        got == Caught(sl.out)
    IN
    /\ sl.pc = "settle"
    /\ advisor' = [advisor EXCEPT !.queue = AfterSettle(@, sl.out)]
    /\ IF got = "throw" THEN Set(s, Failed(sl))
       ELSE IF sl.ask = "suggest"
       THEN \E valid \in BOOLEAN :
               Set(s, [sl EXCEPT !.pc = "recent",
                                 !.sug = IF got = "answer" /\ valid THEN "category"
                                         ELSE "fail"])
       ELSE \E content \in Contents :
               Set(s, [sl EXCEPT !.pc = "insert",
                                 !.det = IF got = "answer" /\ content \in {"duplicate", "unique"}
                                         THEN content ELSE "fail"])
    /\ UNCHANGED <<teams, exps, created, left, delivered, hist>>

\* The steps of one create with a configured advisory service.
QueueStep(s) ==
    \/ Submit(s)
    \/ StartRequest(s)
    \/ \E outcome \in AttemptOutcomes : Answer(s, outcome)
    \/ Retry(s)
    \/ Settle(s)
    \/ Recent(s)
    \/ InsertExpense(s)
    \/ Return(s)

\* Overlapping creates of expenses of amount 1 on team t1, which holds one
\* expense, with a configured advisory service whose provider answers each
\* call as it likes.
QueueInit ==
    InitAdvised([e \in ExpIds |-> IF e = "e1" THEN InitExpenses[e] ELSE NoExpense],
                1, MaxOps, [configured |-> TRUE, limited |-> FALSE, queue |-> <<>>])

QueueNext ==
    \/ \E s \in Slots : CreateStart(s, "t1", 1, "none")
    \/ CooldownEnds
    \/ \E s \in Slots : QueueStep(s)

QueueSpec == QueueInit /\ [][QueueNext]_vars

\* The event loop runs every callback that is ready, every timer fires and
\* every provider call returns; clients need not send requests and the
\* cooldown need not end.
QueueFairSpec == QueueSpec /\ \A s \in Slots : WF_vars(QueueStep(s))

\* Expense creations, overlapping, with an advisory service that has a client
\* or has none; the provider answers each attempt as it likes.  One expense
\* of team t1 is stored and two ids are free.
AdvisoryInit ==
    \E cfg \in BOOLEAN :
       InitAdvised([e \in ExpIds |-> IF e = "e1" THEN InitExpenses[e] ELSE NoExpense],
                   1, MaxOps, [configured |-> cfg, limited |-> FALSE, queue |-> <<>>])

AdvisoryNext ==
    \/ \E s \in Slots, t \in TeamIds \cup {GhostTeam}, a \in Amounts :
          CreateStart(s, t, a, "none")
    \/ CooldownEnds
    \/ \E s \in Slots :
          \/ Suggest(s)
          \/ Recent(s)
          \/ Detect(s)
          \/ InsertExpense(s)
          \/ Return(s)

AdvisorySpec == AdvisoryInit /\ [][AdvisoryNext]_vars

\* Team creations and team updates, overlapping, on a collection that holds
\* no team, team t1, or both teams; there are no expenses.
NameInit ==
    /\ \E stored \in {{}, {"t1"}, TeamIds} :
          teams = [t \in TeamIds |->
                     IF t \in stored
                     THEN [NoTeam EXCEPT !.exists = TRUE, !.name = InitName[t],
                                         !.budget = InitBudget[t]]
                     ELSE NoTeam]
    /\ exps = [e \in ExpIds |-> NoExpense]
    /\ created = 0
    /\ slots = [s \in Slots |-> Idle]
    /\ left = MaxOps
    /\ delivered = [t \in TeamIds |-> [a \in AlertTypes |-> 0]]
    /\ hist = [e \in ExpIds |-> [trail |-> <<"pending">>, pos |-> 0, net |-> 0]]
    /\ advisor = Unconfigured

NameNext ==
    \/ \E s \in Slots, nm \in TeamNames, b \in TeamBudgets : TeamCreateStart(s, nm, b)
    \/ \E s \in Slots, t \in TeamIds \cup {GhostTeam}, d \in TeamDtos : TeamUpdateStart(s, t, d)
    \/ \E s \in Slots :
          \/ InsertTeam(s)
          \/ FindName(s)
          \/ SaveTeam(s)
          \/ Return(s)

NameSpec == NameInit /\ [][NameNext]_vars

\* One request at a time, an update or a bulkAction, with an e-mail service
\* whose sends may fail; the observer is on.
NoticeNext ==
    \/ /\ AllIdle
       /\ \/ \E s \in Slots, e \in ExpIds, d \in Dtos : UpdateStart(s, e, d)
          \/ \E ids \in BulkIdLists, action \in {"approve", "reject"} : BulkStart(ids, action)
    \/ \E s \in Slots :
          \/ ObservedSaveExpense(s)
          \/ NotifyOutcome(s)
          \/ LoadTeam(s)
          \/ ObservedSaveSpendA(s)
          \/ ObservedSaveSpendU(s)
          \/ SendAlert(s)
          \/ SaveLatch(s)
          \/ Return(s)

NoticeSpec == SeqInit /\ [][NoticeNext]_vars

\* The operations that write a team, overlapping: expense updates that keep
\* the amount, bulk actions, removals, team updates, the recomputations and
\* findAll.
LatchNext ==
    \/ \E s \in Slots, e \in ExpIds, st \in Statuses \cup {"none"} :
          UpdateStart(s, e, [status |-> st, amount |-> {}])
    \/ \E ids \in BulkIdLists, action \in {"approve", "reject"} : BulkStart(ids, action)
    \/ \E s \in Slots, e \in ExpIds : RemoveStart(s, e)
    \/ \E s \in Slots, t \in TeamIds, d \in TeamDtos : TeamUpdateStart(s, t, d)
    \/ \E s \in Slots, op \in {"findOne", "status"}, t \in TeamIds : RecomputeStart(s, op, t)
    \/ \E s \in Slots : FindAllStart(s)
    \/ \E s \in Slots :
          \/ SaveExpense(s)
          \/ Notify(s)
          \/ LoadTeam(s)
          \/ SaveSpendA(s)
          \/ SaveSpendU(s)
          \/ SendAlert(s)
          \/ SaveLatch(s)
          \/ DeleteExpense(s)
          \/ FindName(s)
          \/ SaveTeam(s)
          \/ Calc(s)
          \/ SaveCalc(s)
          \/ CheckAlerts(s)
          \/ Return(s)

LatchSpec == Init /\ [][LatchNext]_vars


\* ================================================================== claims

\* The sum of amount over the expenses of team t whose status is approved,
\* stated over the stored expenses e1, e2, e3.
CountedAmount(e, t) ==
    IF exps[e].exists /\ exps[e].team = t /\ exps[e].status = "approved"
    THEN exps[e].amount ELSE 0

ApprovedTotal(t) == CountedAmount("e1", t) + CountedAmount("e2", t) + CountedAmount("e3", t)

Latch(tm, a) ==
    IF a = "hundred_percent" THEN tm.hundredPercentSent ELSE tm.eightyPercentSent

\* C1: after every completed update, bulkAction and remove, run one request
\* at a time from the consistent initial state, each team's stored
\* currentSpending is the sum of the amounts of its approved expenses.
C1_LedgerMatchesApproved ==
    AllIdle => \A t \in TeamIds : teams[t].currentSpending = ApprovedTotal(t)

\* C2: once N overlapping approvals of N distinct pending expenses of amount
\* A each on team t1 have all completed, its currentSpending is N * A.
C2_NoLostUpdate ==
    AllIdle =>
       teams["t1"].currentSpending =
          Cardinality({e \in ExpIds : exps[e].status = "approved"}) * exps["e1"].amount

\* C3: under any interleaving of approvals and alert evaluations, each
\* threshold alert of a team is dispatched at most once.
C3_AtMostOnePerThreshold ==
    \A t \in TeamIds : \A a \in AlertTypes : delivered[t][a] <= 1

\* C4: with requests run one at a time, right after the recomputation of
\* findOne or getBudgetStatus the team's stored currentSpending is the sum of
\* the amounts of its approved expenses.
C4_RecomputedMatches ==
    \A s \in Slots :
       (/\ slots[s].op \in {"findOne", "status"}
        /\ slots[s].pc \in {"sendAlert", "saveLatch", "ret"}
        /\ slots[s].res = "none")
       => teams[slots[s].t].currentSpending = ApprovedTotal(slots[s].t)

\* A recomputation has returned for a team that has an approved expense and
\* one that is not approved.
C4_Witness ==
    \E s \in Slots :
       /\ slots[s].op \in {"findOne", "status"}
       /\ slots[s].pc = "ret"
       /\ slots[s].res = "none"
       /\ ApprovedTotal(slots[s].t) > 0
       /\ \E e \in ExpIds : exps[e].exists /\ exps[e].team = slots[s].t
                            /\ exps[e].status # "approved"

\* A request (update or bulkAction task) that approves an expense it found
\* approved.
Reapproval(sl) ==
    /\ sl.op \in {"update", "bulk"}
    /\ sl.res = "none"
    /\ sl.dto.status = "approved"
    /\ sl.oldStatus = "approved"

\* C5: no step of a request that re-issues the approval of an expense that is
\* already approved changes any team's currentSpending.
C5_ReapprovalKeepsSpending ==
    [][\A s \in Slots :
          (Reapproval(slots[s]) /\ slots'[s] # slots[s])
          => \A t \in TeamIds : teams'[t].currentSpending = teams[t].currentSpending]_vars

\* A re-approval has run to its end, on an expense that is counted.
C5_Witness ==
    \E s \in Slots :
       /\ Reapproval(slots[s])
       /\ slots[s].pc = "ret"
       /\ teams[slots[s].t].currentSpending >= slots[s].doc.amount

\* C6: an expense driven pending -> approved -> rejected -> approved had the
\* amount added to currentSpending exactly twice, and the changes its
\* updates made to currentSpending sum to its amount.
C6_NoDoubleCount ==
    \A e \in ExpIds :
       (AllIdle /\ hist[e].trail = <<"pending", "approved", "rejected", "approved">>)
       => /\ hist[e].pos = 2
          /\ hist[e].net = exps[e].amount

C6_Witness ==
    \E e \in ExpIds :
       /\ AllIdle
       /\ hist[e].trail = <<"pending", "approved", "rejected", "approved">>
       /\ teams[exps[e].team].currentSpending >= exps[e].amount

\* C7: a request that arrives when a team's eightyPercentSent is already
\* stored true never chooses, and so never dispatches, the eighty-percent
\* alert for that team, whatever the spending it sees.
C7_NoEightyAfterLatch ==
    \A s \in Slots :
       (slots[s].alert = "eighty_percent" /\ slots[s].pc \in {"sendAlert", "saveLatch", "ret", "check"})
       => slots[s].evT \notin slots[s].late

\* Such a request has evaluated the alerts of the team at a utilization of
\* eighty percent or more.
C7_Witness ==
    \E s \in Slots :
       /\ slots[s].evT \in TeamIds
       /\ slots[s].evT \in slots[s].late
       /\ slots[s].pc = "ret"
       /\ slots[s].snap[slots[s].evT].budget > 0
       /\ UtilGE(slots[s].snap[slots[s].evT].currentSpending,
                 slots[s].snap[slots[s].evT].budget, 80)

\* The alert the claim names for a team document (budget > 0): hundred_percent
\* if utilization >= 100 and hundredPercentSent is false, otherwise
\* eighty_percent if utilization >= 80 and eightyPercentSent is false.
ClaimedAlert(tm) ==
    IF tm.currentSpending * 100 >= 100 * tm.budget /\ ~tm.hundredPercentSent
    THEN "hundred_percent"
    ELSE IF tm.currentSpending * 100 >= 80 * tm.budget /\ ~tm.eightyPercentSent
         THEN "eighty_percent"
    ELSE "none"

\* C8: every alert evaluation (update, getBudgetStatus, findAll) chooses the
\* one alert the rule names, from the team document it evaluates.
C8_AlertChoice ==
    \A s \in Slots :
       (/\ slots[s].evT \in TeamIds
        /\ slots[s].pc = "sendAlert" \/ slots[s].alert = "none"
        /\ slots[s].snap[slots[s].evT].budget > 0)
       => slots[s].alert = ClaimedAlert(slots[s].snap[slots[s].evT])

\* C9: a latch is stored only if a dispatch of its alert succeeded (a failed
\* dispatch leaves the latch unset).
C9_FailedDispatchLeavesLatch ==
    \A t \in TeamIds : \A a \in AlertTypes : Latch(teams[t], a) => delivered[t][a] >= 1

\* What a request that ended in a store error had committed: the status
\* (the expense save went through), the ledger delta (the save of
\* currentSpending went through).  The latch save is the last store call, so
\* a request that ended in an error has not committed a latch.
StatusCommitted(sl) == sl.at # "saveExp"
DeltaCommitted(sl) ==
    sl.at \notin {"saveExp", "loadTeamA", "loadTeamU", "saveSpendA", "saveSpendU"}
LatchCommitted(sl) == FALSE

\* The transition owes a ledger delta, and an alert latch.
OwesDelta(sl) ==
    \/ EntersApproved(sl.dto.status, sl.oldStatus)
    \/ sl.op = "update" /\ LeavesApproved(sl.dto.status, sl.oldStatus)
OwesLatch(sl) == sl.alert # "none"

\* C10: a status transition in which a store call failed committed the
\* status, the ledger delta and the latch it owes all together, or none of
\* them.
C10_AllOrNothing ==
    \A s \in Slots :
       (/\ slots[s].op \in {"update", "bulk"}
        /\ slots[s].res = "error"
        /\ slots[s].dto.status \notin {"none", slots[s].oldStatus})
       => \/ /\ StatusCommitted(slots[s])
             /\ OwesDelta(slots[s]) => DeltaCommitted(slots[s])
             /\ OwesLatch(slots[s]) => LatchCommitted(slots[s])
          \/ ~StatusCommitted(slots[s]) /\ ~DeltaCommitted(slots[s])


\* C11: within a transition to approved, the submitter notification is
\* dispatched only after the ledger delta is applied: no request that enters
\* approved is past its notification with the delta still to apply.
C11_DeltaBeforeNotification ==
    \A s \in Slots :
       (/\ slots[s].op \in {"update", "bulk"}
        /\ EntersApproved(slots[s].dto.status, slots[s].oldStatus))
       => slots[s].pc \notin {"loadTeamA", "saveSpendA"}

\* C12: for an expense approved once and never moved out of approved, the
\* changes its updates made to currentSpending sum to its present amount:
\* each change of its amount moved currentSpending by new minus old.
C12_AmountChangeAdjusts ==
    \A e \in ExpIds :
       (AllIdle /\ exps[e].exists /\ hist[e].trail = <<"pending", "approved">>)
       => hist[e].net = exps[e].amount

\* C13: the steps of remove change a team only in the save that follows the
\* load of the team of an approved expense, which stores currentSpending
\* minus the amount, floored at zero, while the expense is still stored; a
\* remove of a pending or rejected expense changes no team.
C13_RemoveSubtracts ==
    [][\A s \in Slots :
          ((slots[s].op = "remove" \/ slots'[s].op = "remove") /\ slots'[s] # slots[s])
          => IF slots[s].pc = "saveSpendR"
             THEN /\ exps[slots[s].e].exists
                  /\ exps[slots[s].e].status = "approved"
                  /\ teams' = [teams EXCEPT ![slots[s].t].currentSpending =
                                  IF @ - exps[slots[s].e].amount < 0 THEN 0
                                  ELSE @ - exps[slots[s].e].amount]
             ELSE /\ teams' = teams
                  /\ (slots'[s].pc = "delete" /\ slots[s].op = "idle")
                        => exps[slots'[s].e].status # "approved"]_vars

\* An approved expense has been removed and its amount taken off.
C13_Witness ==
    \E s \in Slots :
       /\ slots[s].op = "remove" /\ slots[s].pc = "ret" /\ slots[s].res = "none"
       /\ slots[s].oldStatus = "approved"
       /\ ~exps[slots[s].e].exists
       /\ slots[s].snap[slots[s].t].loaded
       /\ teams[slots[s].t].currentSpending = slots[s].snap[slots[s].t].currentSpending

\* C14: a stored expense has approvedBy exactly when its status is approved
\* or rejected.
C14_ApprovedByIffDecided ==
    \A e \in ExpIds :
       exps[e].exists => (exps[e].approvedBy <=> exps[e].status \in {"approved", "rejected"})

\* C15: the expense a create request has just stored is pending.
C15_CreatedPending ==
    \A s \in Slots :
       (slots[s].op = "create" /\ slots[s].pc = "ret" /\ slots[s].res = "none")
       => exps[slots[s].e].status = "pending"

C17_NoAlertWithoutBudget ==
    \A s \in Slots :
       (slots[s].evT \in TeamIds /\ slots[s].snap[slots[s].evT].budget = 0)
       => slots[s].alert = "none"

\* C18: every stored expense references a stored team.
C18_ExpensesReferenceTeams ==
    \A e \in ExpIds : exps[e].exists => TeamExists(exps[e].team)

\* C19: a bulkAction request that lists an id of no stored expense changes no
\* expense, no team and no latch, dispatches nothing and starts no task: it
\* is rejected at once.
C19_FailedBatchChangesNothing ==
    [][\A ids \in BulkIdLists, action \in {"approve", "reject"} :
          (BulkStart(ids, action) /\ \E i \in DOMAIN ids : ~exps[ids[i]].exists)
          => /\ exps' = exps /\ teams' = teams /\ delivered' = delivered
             /\ \E s \in Slots :
                   slots' = [slots EXCEPT ![s] = [Idle EXCEPT !.op = "bulk", !.pc = "ret",
                                                              !.res = "BadRequest"]]]_vars

\* A batch has been rejected when no expense at all was stored.
C19_Witness ==
    \E s \in Slots :
       /\ slots[s].op = "bulk" /\ slots[s].res = "BadRequest"
       /\ \A e \in ExpIds : ~exps[e].exists

\* C20: after its notification, a bulkAction task goes on to the same ledger
\* change as an update with the same previous and target status.
C20_BulkDeltaAsUpdate ==
    \A s \in Slots :
       (slots[s].op = "bulk" /\ slots[s].pc = "notify")
       => AfterNotify(slots[s]) = AfterNotify([slots[s] EXCEPT !.op = "update"])

\* C21: no two stored teams have the same name.
C21_TeamNamesUnique ==
    \A t \in TeamIds : \A u \in TeamIds :
       (t # u /\ teams[t].exists /\ teams[u].exists) => teams[t].name # teams[u].name

\* How many times the saves of expense e moved it into approved.
Approvals(e) == Cardinality({i \in 2..Len(hist[e].trail) : hist[e].trail[i] = "approved"})

\* C22: no update and no bulkAction task ends at its notification, and one
\* whose submitter notification or budget alert e-mail failed still returns
\* without error with the status it wrote stored and its ledger change
\* saved (every move into approved has its addition, the subtraction of an
\* update that left approved is in the team).
C22_NotificationFailureKeepsTransition ==
    \A s \in Slots :
       slots[s].op \in {"update", "bulk"}
       => /\ slots[s].at # "notify"
          /\ (/\ slots[s].pc = "ret"
              /\ \/ slots[s].note = "failure"
                 \/ slots[s].alert # "none" /\ ~slots[s].mailOk)
             => /\ slots[s].res = "none"
                /\ exps[slots[s].e].status = slots[s].dto.status
                /\ hist[slots[s].e].pos = Approvals(slots[s].e)
                /\ (slots[s].op = "update"
                    /\ LeavesApproved(slots[s].dto.status, slots[s].oldStatus))
                   => /\ slots[s].snap[slots[s].t].loaded
                      /\ teams[slots[s].t].currentSpending
                            = slots[s].snap[slots[s].t].currentSpending

\* An approval has returned whose submitter notification and whose budget
\* alert e-mail both failed, the amount being in the team's spending.
C22_Witness ==
    \E s \in Slots :
       /\ slots[s].op = "update" /\ slots[s].pc = "ret"
       /\ slots[s].note = "failure"
       /\ slots[s].alert # "none" /\ ~slots[s].mailOk
       /\ EntersApproved(slots[s].dto.status, slots[s].oldStatus)
       /\ teams[slots[s].t].currentSpending >= slots[s].doc.amount

\* C23: a create for a team id that no stored team has (an id never handed
\* out, or the id of a removed team) is rejected at once with BadRequest: it
\* stores no expense, hands out no id and writes no team, and the rejected
\* request does nothing more than return.
C23_CreateForMissingTeamFails ==
    [][/\ \A s \in Slots, t \in TeamIds \cup {GhostTeam}, a \in Amounts,
             st \in Statuses \cup {"none"} :
             (~TeamExists(t) /\ CreateStart(s, t, a, st))
             => /\ exps' = exps /\ teams' = teams /\ created' = created
                /\ slots' = [slots EXCEPT ![s] = [Idle EXCEPT !.op = "create", !.pc = "ret",
                                                              !.t = t, !.res = "BadRequest"]]
       /\ \A s \in Slots :
             (slots[s].op = "create" /\ slots[s].res = "BadRequest" /\ slots'[s] # slots[s])
             => /\ slots'[s] = Idle
                /\ exps' = exps /\ teams' = teams /\ created' = created]_vars

\* A create has been rejected for the id of a team that was removed.
C23_Witness ==
    \E s \in Slots :
       /\ slots[s].op = "create" /\ slots[s].res = "BadRequest"
       /\ slots[s].t \in TeamIds /\ ~teams[slots[s].t].exists

\* C24: every alert decision (update, getBudgetStatus, findAll) is taken on
\* a total freshly derived from the expense records: the spending the
\* request evaluated is the sum of the amounts of the team's approved
\* expenses.
C24_AlertUsesFreshTotal ==
    \A s \in Slots :
       slots[s].evT \in TeamIds
       => slots[s].snap[slots[s].evT].currentSpending = ApprovedTotal(slots[s].evT)

\* C25: every step of an update that changes the status moves its team's
\* currentSpending by what the previous and the target status name: the save
\* after entering approved from pending or rejected adds the expense's
\* amount, the save after leaving approved to pending or rejected subtracts
\* it with a floor at zero, no other step moves it and no other team is
\* written; the update returns having made that save, and having loaded no
\* team for pending -> rejected and rejected -> pending.
C25_DeltaByStatuses ==
    [][\A s \in Slots :
          (/\ slots[s].op = "update" /\ slots[s].t \in TeamIds
           /\ slots[s].dto.status \notin {"none", slots[s].oldStatus}
           /\ slots'[s] # slots[s])
          => LET sl == slots[s]
                 cs == teams[sl.t].currentSpending
                 a == exps[sl.e].amount
             IN /\ teams'[sl.t].currentSpending =
                      IF sl.pc = "saveSpendA" THEN cs + a
                      ELSE IF sl.pc = "saveSpendU"
                           THEN (IF cs - a < 0 THEN 0 ELSE cs - a)
                      ELSE cs
                /\ \A u \in TeamIds \ {sl.t} : teams'[u] = teams[u]
                /\ sl.pc = "saveSpendA"
                      => sl.dto.status = "approved" /\ sl.oldStatus \in {"pending", "rejected"}
                /\ sl.pc = "saveSpendU"
                      => sl.oldStatus = "approved" /\ sl.dto.status \in {"pending", "rejected"}
                /\ slots'[s].pc = "ret"
                      => (slots'[s].snap[sl.t].loaded
                            <=> "approved" \in {sl.oldStatus, sl.dto.status})]_vars

\* An update has moved an expense from approved to pending and taken its
\* amount off a team that still counts another expense.
C25_Witness ==
    \E s \in Slots :
       /\ slots[s].op = "update" /\ slots[s].pc = "ret" /\ slots[s].res = "none"
       /\ slots[s].oldStatus = "approved" /\ slots[s].dto.status = "pending"
       /\ slots[s].snap[slots[s].t].loaded
       /\ teams[slots[s].t].currentSpending = slots[s].snap[slots[s].t].currentSpending
       /\ teams[slots[s].t].currentSpending > 0

\* C26: no step of an update whose request carries no status and no amount
\* (description, category or date only) changes the expense's status or any
\* team, whatever the status of the expense.
C26_FieldEditKeepsLedger ==
    [][\A s \in Slots :
          (slots[s].op = "update" /\ slots[s].dto = NoDto /\ slots'[s] # slots[s])
          => /\ teams' = teams
             /\ exps'[slots[s].e].status = exps[slots[s].e].status]_vars

\* C27: an update or a bulkAction task sends the submitter notification
\* only for a write that changes the status to approved or rejected: none
\* is at its notification with a target status equal to the status it found.
C27_NotifiedOnlyOnChange ==
    \A s \in Slots :
       (slots[s].op \in {"update", "bulk"} /\ slots[s].pc = "notify")
       => IsDecision(slots[s].dto.status, slots[s].oldStatus)

\* C28: when a bulkAction task that moved an expense into approved has
\* returned, its team (with a budget) has the latch of every threshold its
\* utilization has reached: hundredPercentSent at 100 or more, one of the
\* two latches at 80 or more.
C28_BulkApproveAlerted ==
    \A s \in Slots :
       (/\ slots[s].op = "bulk" /\ slots[s].pc = "ret" /\ slots[s].res = "none"
        /\ EntersApproved(slots[s].dto.status, slots[s].oldStatus)
        /\ teams[slots[s].t].budget > 0)
       => LET tm == teams[slots[s].t]
          IN /\ UtilGE(tm.currentSpending, tm.budget, 100) => tm.hundredPercentSent
             /\ UtilGE(tm.currentSpending, tm.budget, 80)
                   => tm.eightyPercentSent \/ tm.hundredPercentSent

\* C29: in every reachable state, whatever the interleaving of approvals,
\* unapprovals, deletions and recomputations, every team's currentSpending
\* is >= 0.
C29_SpendingNeverNegative ==
    \A t \in TeamIds : teams[t].currentSpending >= 0

\* An update has taken more off a team than it held: it approved-and-stored
\* amount 1, then left approved with the amount changed to 4, and the floor
\* stored 0.
C29_Witness ==
    \E s \in Slots :
       /\ slots[s].op = "update" /\ slots[s].pc = "ret" /\ slots[s].res = "none"
       /\ slots[s].oldStatus = "approved" /\ slots[s].dto.status = "rejected"
       /\ slots[s].orig.amount = 1 /\ slots[s].doc.amount = 4
       /\ slots[s].snap[slots[s].t].loaded
       /\ slots[s].snap[slots[s].t].currentSpending = 0
       /\ teams[slots[s].t].currentSpending = 0
       /\ \A e \in ExpIds : exps[e].status # "approved"

\* C30: no step of an expense update, a bulk action, a removal, a team
\* update, a recomputation or findAll, in any interleaving, changes a stored
\* eightyPercentSent or hundredPercentSent from true to false.
C30_LatchesMonotonic ==
    [][\A t \in TeamIds :
          /\ teams[t].eightyPercentSent => teams'[t].eightyPercentSent
          /\ teams[t].hundredPercentSent => teams'[t].hundredPercentSent]_vars

\* A team update has saved a new budget from a document it loaded before a
\* latch of the team was stored, and the latch is still stored.
C30_Witness ==
    \E s \in Slots : \E a \in AlertTypes :
       /\ slots[s].op = "teamUpdate" /\ slots[s].pc = "ret" /\ slots[s].res = "none"
       /\ slots[s].tdto.budget # {}
       /\ teams[slots[s].t].budget = slots[s].snap[slots[s].t].budget
       /\ teams[slots[s].t].budget # InitBudget[slots[s].t]
       /\ ~Latch(slots[s].snap[slots[s].t], a)
       /\ Latch(teams[slots[s].t], a)

\* C31: when a recomputation (findOne or getBudgetStatus) and a status
\* update or a removal on the same team, the first two requests from the
\* consistent initial state, have both completed, the team's stored
\* currentSpending is the sum of the amounts of its approved expenses.
C31_RecomputeRaceConsistent ==
    \A r \in Slots : \A m \in Slots :
       (/\ left = MaxOps - 2
        /\ slots[r].op \in {"findOne", "status"}
        /\ slots[r].pc = "ret" /\ slots[r].res = "none"
        /\ \/ slots[m].op = "remove"
           \/ /\ slots[m].op = "update"
              /\ slots[m].dto.status # "none" /\ slots[m].dto.amount = {}
        /\ slots[m].pc = "ret" /\ slots[m].res = "none"
        /\ slots[m].t = slots[r].t)
       => teams[slots[r].t].currentSpending = ApprovedTotal(slots[r].t)

\* C32: when two update requests that both found the same expense pending
\* and both approve it, the first two requests from the initial state, have
\* completed, the team's currentSpending has grown by the expense's amount
\* once.
C32_DoubleApproveCountsOnce ==
    \A r \in Slots : \A m \in Slots :
       (/\ r # m /\ left = MaxOps - 2
        /\ \A s \in {r, m} :
              /\ slots[s].op = "update" /\ slots[s].pc = "ret" /\ slots[s].res = "none"
              /\ slots[s].dto = [status |-> "approved", amount |-> {}]
              /\ slots[s].oldStatus = "pending"
        /\ slots[r].e = slots[m].e)
       => teams[slots[r].t].currentSpending = exps[slots[r].e].amount

\* C37: when getBudgetStatus returns, the alertStatus in its result equals
\* the latches stored for the team at that moment, also when this call
\* dispatched an alert and stored a latch.
C37_ReplyShowsStoredLatches ==
    \A s \in Slots :
       (/\ slots[s].op = "status" /\ slots[s].pc = "ret" /\ slots[s].res = "none"
        /\ teams[slots[s].t].exists)
       => slots[s].reply = AlertStatus(teams[slots[s].t])

\* C38: a bulkAction whose id list names existing expenses only, the same
\* id possibly more than once, is not refused with BadRequest.
C38_BulkWithRepeatedIdSucceeds ==
    [][\A ids \in BulkIdLists : \A action \in {"approve", "reject"} :
          (BulkStart(ids, action) /\ \A i \in DOMAIN ids : exps[ids[i]].exists)
          => \A s \in Slots : slots'[s].res # "BadRequest"]_vars

\* The team an expense operation is about: the team named by the body of a
\* create, the team of the stored expense for update, remove and a bulk task.
ExpenseOps == {"create", "update", "remove", "bulk"}
TargetTeam(s) == IF slots[s].op = "create" THEN slots[s].t ELSE slots[s].orig.team

Ledger(tm) == <<tm.currentSpending, tm.eightyPercentSent, tm.hundredPercentSent>>

\* C36: a step of an expense operation (create, update, a bulkAction task,
\* remove) leaves currentSpending and the alert latches of every team other
\* than the team of its expense unchanged.
C36_OtherTeamsUntouched ==
    [][\A s \in Slots : \A b \in TeamIds :
          (/\ slots[s].op \in ExpenseOps
           /\ slots'[s] # slots[s]
           /\ b # TargetTeam(s))
          => Ledger(teams'[b]) = Ledger(teams[b])]_vars

\* An approval on an expense of team t2 has written t2's spending while team
\* t1 holds spending of its own.
C36_Witness ==
    \E s \in Slots :
       /\ slots[s].op \in {"update", "bulk"} /\ slots[s].pc = "ret" /\ slots[s].res = "none"
       /\ slots[s].orig.team = "t2" /\ slots[s].orig.status = "pending"
       /\ slots[s].dto.status = "approved"
       /\ teams["t2"].currentSpending > 0
       /\ teams["t1"].currentSpending > 0

\* C33: while the cooldown opened by a rate-limit signal lasts, no request
\* is calling the provider, the retries of the request that received the
\* signal included.
C33_NoCallDuringCooldown ==
    \A s \in Slots : slots[s].pc = "calling" => ~advisor.limited

\* The requests whose withRetry is running or has just settled.
Started == {s \in Slots : slots[s].pc \in {"calling", "backoff", "settle"}}

\* C34: provider calls made through queueRequest are serialized: at most one
\* call is in flight, and the request being served is the earliest
\* submitted one that has not settled, also with overlapping creates.
C34_CallsSerialized ==
    /\ Cardinality({s \in Slots : slots[s].pc = "calling"}) <= 1
    /\ \A s \in Started : Head(advisor.queue) = s

\* A provider call is in flight while the request of another create waits
\* behind it.
C34_Witness ==
    \E r \in Slots : \E s \in Slots :
       /\ advisor.queue = <<r, s>>
       /\ slots[r].pc = "calling" /\ slots[s].pc = "queued"

\* A create is inside an advisory call.
InAdvisory(s) ==
    slots[s].pc \in {"suggest", "detect", "queued", "calling", "backoff", "settle"}

\* C35: every advisory request ends: the provider is contacted at most
\* MaxRetries + 1 times for one request, no create fails because of the
\* advisory service, a request that failed (retries exhausted, cooldown,
\* provider error) reaches create as "no success", and a create that is
\* inside an advisory call eventually leaves it.
C35_AdvisoryRequestEnds ==
    /\ [](\A s \in Slots :
            /\ slots[s].attempt <= MaxRetries
            /\ slots[s].res # "error"
            /\ (slots[s].out = "fail" /\ slots[s].pc \in {"recent", "insert", "ret"})
               => /\ slots[s].ask = "suggest" => slots[s].sug = "fail"
                  /\ slots[s].ask = "detect" => slots[s].det = "fail")
    /\ \A s \in Slots : InAdvisory(s) ~> ~InAdvisory(s)

\* A suggestion request used up its retries and create goes on without a
\* suggestion.
C35_Witness ==
    \E s \in Slots :
       /\ slots[s].op = "create" /\ slots[s].pc = "recent" /\ slots[s].res = "none"
       /\ slots[s].ask = "suggest" /\ slots[s].attempt = MaxRetries
       /\ slots[s].out = "fail" /\ slots[s].sug = "fail"

\* C39: when the request at the head of the queue has failed (its withRetry
\* threw, after a provider error or because of the cooldown), the request
\* submitted behind it is eventually started and settled.
C39_FailureDoesNotBlockQueue ==
    \A r \in Slots : \A s \in Slots :
       (/\ advisor.queue = <<r, s>>
        /\ slots[r].pc = "settle" /\ slots[r].out = "fail"
        /\ slots[s].pc = "queued")
       ~> (slots[s].pc \in {"recent", "insert"} /\ slots[s].out # "none")

\* The first request of one create failed and the first request of the other
\* create, served after it, has settled.
C39_Witness ==
    \E r \in Slots : \E s \in Slots :
       /\ slots[r].pc = "recent" /\ slots[r].ask = "suggest" /\ slots[r].out = "fail"
       /\ slots[s].pc = "settle" /\ slots[s].ask = "suggest" /\ slots[s].out # "none"
       /\ advisor.queue = <<s>>

=============================================================================
